---- MODULE Spec2Model ----
(***************************************************************************)
(* Model of the telemetry storage layer of webcpc-backend: the            *)
(* telemetry.vehicle_telemetry hypertable, the two bulk insert functions,  *)
(* the geometry trigger, the track query, the HTTP facade in front of them *)
(* and the chunk retention job.                                            *)
(*                                                                         *)
(* A nullable SQL value is a tuple: <<>> is NULL, <<v>> is the value v.    *)
(* A point is <<x, y>>.  Time is counted in half days.                     *)
(***************************************************************************)
EXTENDS Integers, Sequences, FiniteSets, Bags, TLC

VARIABLES table, chunks, now, last, policies,
          jobs, compressed, cagg, pool, sessions

vars == <<table, chunks, now, last, policies, jobs, compressed, cagg, pool, sessions>>

\* What lies outside the rows, their chunks, the clock and the policy table:
\* the policy jobs of the hypertable, its compressed chunks, the
\* materialization of the daily rollup, the connection pool and the
\* transactions in progress.
background == <<jobs, compressed, cagg, pool, sessions>>

\* ------------------------------------------------------------------ bounds

\* Largest clock value, in half days.
MaxTime == 4
\* Longest ingestion batch.
MaxBatch == 2
\* Longest retention interval the retention job is configured with, in days.
MaxRetentionDays == 2
\* The most callers that wait for a client of the pool at once.
MaxWaiting == 1

\* ------------------------------------------------------- program constants

\* chunk_time_interval => INTERVAL '1 day': a day is two units of time.
ChunkInterval == 2
\* A day, the unit of the retention interval.
Day == ChunkInterval
\* DECIMAL(10,7): three digits before the decimal point.
CoordDigits == 3
\* DECIMAL(5,2): three digits before the decimal point.
SpeedDigits == 3
\* CHECK (csq BETWEEN 0 AND 31)
CsqMax == 31
\* p_limit INTEGER DEFAULT 1000, limit || 1000
DefaultLimit == 1000
\* Date.now() - 24 * 60 * 60 * 1000: one day, two units of time.
DefaultTrackWindow == 2
\* batch_size INTEGER := 1000
batch_size == 1000

\* radius ? parseInt(radius) : 1000
DefaultRadius == 1000
\* timeWindow ? parseInt(timeWindow) : 15
DefaultTimeWindow == 15
\* get_nearby_vehicles: LIMIT 50
NearbyLimit == 50

\* ------------------------------------------------------------- SQL values

NULL == <<>>

IsNull(v) == v = NULL

Val(v) == v[1]

RECURSIVE Pow10(_)
Pow10(n) == IF n = 0 THEN 1 ELSE 10 * Pow10(n - 1)

Abs(x) == IF x < 0 THEN -x ELSE x

Min(a, b) == IF a < b THEN a ELSE b

\* --------------------------------------------------- telemetry.vehicle_telemetry

\* A key that adds a column to the pair, as the key of vehicle_anomalies
\* does: rows that share (license_plate, time) no longer conflict.
PrimaryKeyWithImei(r) == <<r.license_plate, r.time, r.imei>>

\* PRIMARY KEY (license_plate, time)
PrimaryKey(r) == <<r.license_plate, r.time>>

\* A chunk assignment that rounds the timestamp to the nearest boundary.
ChunkOfNearest(t) == (t + 1) \div ChunkInterval

\* The chunk of the hypertable a timestamp falls in: chunk c covers
\* [c * ChunkInterval, (c + 1) * ChunkInterval).
ChunkOf(t) == t \div ChunkInterval

ChunkStart(c) == c * ChunkInterval

ChunkEnd(c) == (c + 1) * ChunkInterval

\* ST_SetSRID(ST_MakePoint(longitude, latitude), 4326)
ST_MakePoint(lon, lat) == <<lon, lat>>

\* The cast geometry::geography.  PostGIS coerces a coordinate outside
\* [-180, 180] x [-90, 90] into range (with a NOTICE) instead of failing.
longitude_normalize(x) ==
    IF x > 180 THEN x - 360 ELSE IF x < -180 THEN x + 360 ELSE x

latitude_normalize(y) ==
    IF y > 90 THEN 180 - y ELSE IF y < -90 THEN -180 - y ELSE y

Geography(p) == <<longitude_normalize(p[1]), latitude_normalize(p[2])>>

\* A trigger that derives the point only while the row has none, as the seed
\* UPDATE does: a later change of the coordinates leaves the old point.
update_geom_when_missing(new) ==
    IF ~IsNull(new.geom) /\ ~IsNull(new.geog) THEN new
    ELSE IF ~IsNull(new.longitude) /\ ~IsNull(new.latitude)
    THEN [new EXCEPT
            !.geom = <<Val(new.longitude), Val(new.latitude)>>,
            !.geog = <<Val(new.longitude), Val(new.latitude)>>]
    ELSE [new EXCEPT !.geom = NULL, !.geog = NULL]

\* The row trigger BEFORE INSERT OR UPDATE: geom and geog follow the row's
\* longitude and latitude.
update_vehicle_telemetry_geom(new) ==
    IF ~IsNull(new.longitude) /\ ~IsNull(new.latitude)
    THEN [new EXCEPT
            !.geom = ST_MakePoint(Val(new.longitude), Val(new.latitude)),
            !.geog = Geography(ST_MakePoint(Val(new.longitude), Val(new.latitude)))]
    ELSE [new EXCEPT !.geom = NULL, !.geog = NULL]

\* The column CHECK constraints of the table.  A NULL satisfies a CHECK.
CheckConstraints(r) ==
    /\ IsNull(r.speed) \/ Val(r.speed) >= 0
    /\ IsNull(r.gps_speed) \/ (Val(r.gps_speed) >= 0 /\ Val(r.gps_speed) <= 300)
    /\ IsNull(r.direction) \/ (Val(r.direction) >= 0 /\ Val(r.direction) < 360)
    /\ IsNull(r.csq) \/ (Val(r.csq) >= 0 /\ Val(r.csq) <= CsqMax)

\* The casts of the VALUES list: a DECIMAL(p,s) cast fails on overflow.
CastsSucceed(rec) ==
    /\ IsNull(rec.longitude) \/ Abs(Val(rec.longitude)) < Pow10(CoordDigits)
    /\ IsNull(rec.latitude) \/ Abs(Val(rec.latitude)) < Pow10(CoordDigits)
    /\ IsNull(rec.speed) \/ Abs(Val(rec.speed)) < Pow10(SpeedDigits)
    /\ IsNull(rec.gps_speed) \/ Abs(Val(rec.gps_speed)) < Pow10(SpeedDigits)
    /\ IsNull(rec.direction) \/ Abs(Val(rec.direction)) < Pow10(SpeedDigits)

\* The row the VALUES list of bulk_insert_telemetry_simple proposes for one
\* element of p_data; created_at takes its default NOW().
SimpleValues(rec, t) ==
    [license_plate |-> rec.license_plate, time |-> rec.time,
     imei |-> rec.imei, imsi |-> rec.imsi,
     longitude |-> rec.longitude, latitude |-> rec.latitude,
     speed |-> rec.speed, gps_speed |-> rec.gps_speed,
     direction |-> rec.direction,
     is_moving |-> rec.is_moving, is_speeding |-> rec.is_speeding,
     csq |-> rec.csq, driver_id |-> rec.driver_id,
     log_sequence |-> rec.log_sequence, crc_checksum |-> rec.crc_checksum,
     raw_data |-> rec.raw_data,
     geom |-> NULL, geog |-> NULL,
     created_at |-> t,
     data_source |-> IF IsNull(rec.data_source) THEN <<"api_ingestion">>
                     ELSE rec.data_source]

\* The row the SELECT list of bulk_insert_telemetry proposes: seventeen
\* columns, the others take their defaults.
BulkValues(rec, t) ==
    [license_plate |-> rec.license_plate, time |-> rec.time,
     imei |-> rec.imei, imsi |-> rec.imsi,
     longitude |-> rec.longitude, latitude |-> rec.latitude,
     speed |-> rec.speed, gps_speed |-> rec.gps_speed,
     direction |-> rec.direction,
     is_moving |-> rec.is_moving, is_speeding |-> rec.is_speeding,
     csq |-> rec.csq, driver_id |-> rec.driver_id,
     log_sequence |-> NULL, crc_checksum |-> NULL,
     raw_data |-> rec.raw_data,
     geom |-> NULL, geog |-> NULL,
     created_at |-> t,
     data_source |-> <<"api_ingestion">>]

\* A conflict clause that also sets created_at = EXCLUDED.created_at: every
\* retry stamps the row again.
SimpleDoUpdateStamping(old, excluded) ==
    [old EXCEPT !.longitude = excluded.longitude,
                !.latitude = excluded.latitude,
                !.speed = excluded.speed,
                !.raw_data = excluded.raw_data,
                !.created_at = excluded.created_at]

\* ON CONFLICT (license_plate, time) DO UPDATE SET ... of
\* bulk_insert_telemetry_simple.
SimpleDoUpdate(old, excluded) ==
    [old EXCEPT !.longitude = excluded.longitude,
                !.latitude = excluded.latitude,
                !.speed = excluded.speed,
                !.raw_data = excluded.raw_data]

\* A DO UPDATE that refreshes the position and the raw frame only.
BulkDoUpdatePositionOnly(old, excluded) ==
    [old EXCEPT !.longitude = excluded.longitude,
                !.latitude = excluded.latitude,
                !.raw_data = excluded.raw_data]

\* ON CONFLICT (time, license_plate) DO UPDATE SET ... of
\* bulk_insert_telemetry.
BulkDoUpdate(old, excluded) ==
    [old EXCEPT !.longitude = excluded.longitude,
                !.latitude = excluded.latitude,
                !.speed = excluded.speed,
                !.gps_speed = excluded.gps_speed,
                !.direction = excluded.direction,
                !.is_moving = excluded.is_moving,
                !.csq = excluded.csq,
                !.raw_data = excluded.raw_data]

\* The rows of t that hold the key of r.
Conflicting(t, r) == {old \in t : PrimaryKey(old) = PrimaryKey(r)}

\* The outcome of a statement or function: ok, the table and chunks it
\* leaves, and the keys it has written.
Failed(db) == [ok |-> FALSE, table |-> db.table, chunks |-> db.chunks,
               touched |-> db.touched]

\* INSERT ... ON CONFLICT DO UPDATE of one proposed row.  The BEFORE INSERT
\* trigger and the CHECK constraints act on the proposed row before the
\* conflict is looked for; the update path fires the trigger and the
\* constraints again.  fn is "simple" or "bulk".
InsertOnConflict(db, rec, fn, t) ==
    IF ~db.ok THEN db
    ELSE IF ~CastsSucceed(rec) THEN Failed(db)
    ELSE
      LET proposed == update_vehicle_telemetry_geom(
                        IF fn = "simple" THEN SimpleValues(rec, t)
                        ELSE BulkValues(rec, t))
          olds == Conflicting(db.table, proposed)
      IN  IF ~CheckConstraints(proposed) THEN Failed(db)
          ELSE IF olds = {}
          THEN [ok |-> TRUE,
                table |-> db.table \cup {proposed},
                chunks |-> db.chunks \cup {ChunkOf(proposed.time)},
                touched |-> db.touched \cup {PrimaryKey(proposed)}]
          ELSE
            LET old == CHOOSE o \in olds : TRUE
                new == update_vehicle_telemetry_geom(
                         IF fn = "simple" THEN SimpleDoUpdate(old, proposed)
                         ELSE BulkDoUpdate(old, proposed))
            IN  IF ~CheckConstraints(new) THEN Failed(db)
                ELSE [ok |-> TRUE,
                      table |-> (db.table \ {old}) \cup {new},
                      chunks |-> db.chunks,
                      touched |-> db.touched \cup {PrimaryKey(proposed)}]

\* bulk_insert_telemetry_simple: FOR rec IN ... LOOP, one INSERT per element.
RECURSIVE SimpleLoop(_, _, _, _)
SimpleLoop(db, data, i, t) ==
    IF i > Len(data) THEN db
    ELSE SimpleLoop(InsertOnConflict(db, data[i], "simple", t), data, i + 1, t)

\* The function runs in the transaction of its caller: an exception in any
\* element leaves the table as it was.  count is the value returned.
bulk_insert_telemetry_simple(t0, c0, data, t) ==
    LET start == [ok |-> TRUE, table |-> t0, chunks |-> c0, touched |-> {}]
        done == SimpleLoop(start, data, 1, t)
    IN  IF done.ok
        THEN [ok |-> TRUE, table |-> done.table, chunks |-> done.chunks,
              count |-> Len(data)]
        ELSE [ok |-> FALSE, table |-> t0, chunks |-> c0, count |-> 0]

\* The row the set-based INSERT proposes for one element.
BulkProposed(rec, t) == update_vehicle_telemetry_geom(BulkValues(rec, t))

\* ON CONFLICT (license_plate, time) DO UPDATE: the proposed row on a free
\* key, the old row updated on a taken one.
BulkWrite(proposed, olds) ==
    IF olds = {} THEN proposed
    ELSE update_vehicle_telemetry_geom(
             BulkDoUpdate(CHOOSE o \in olds : TRUE, proposed))

\* The row the set-based INSERT writes for one element.
BulkRow(tbl, rec, t) ==
    BulkWrite(BulkProposed(rec, t), Conflicting(tbl, BulkProposed(rec, t)))

\* The table after a command that writes the rows `rows` on the keys `keys`
\* into the chunks `cs`.
BulkWritten(db, keys, rows, cs) ==
    [ok |-> TRUE,
     table |-> {r \in db.table : PrimaryKey(r) \notin keys} \cup rows,
     chunks |-> db.chunks \cup cs,
     touched |-> db.touched \cup keys]

\* One set-based INSERT ... SELECT ... ON CONFLICT DO UPDATE over a
\* sub-batch.  The command fails when an element fails a cast or a CHECK,
\* and when two of its proposed rows have the same key ("cannot affect row
\* a second time"); otherwise every element is written, each against the
\* rows the table held when the command began.
BulkStatement(db, batch, i, t) ==
    IF ~db.ok THEN db
    ELSE IF \E k \in i..Len(batch) :
                \/ ~CastsSucceed(batch[k])
                \/ ~CheckConstraints(BulkProposed(batch[k], t))
    THEN Failed(db)
    ELSE IF Cardinality({PrimaryKey(BulkProposed(batch[k], t)) :
                            k \in i..Len(batch)}) # Len(batch) - i + 1
    THEN Failed(db)
    ELSE IF \E row \in {BulkRow(db.table, batch[k], t) : k \in i..Len(batch)} :
                ~CheckConstraints(row)
    THEN Failed(db)
    ELSE BulkWritten(db,
             {PrimaryKey(BulkProposed(batch[k], t)) : k \in i..Len(batch)},
             {BulkRow(db.table, batch[k], t) : k \in i..Len(batch)},
             {ChunkOf(BulkProposed(batch[k], t).time) : k \in i..Len(batch)})

\* bulk_insert_telemetry: WHILE batch_index * batch_size < length LOOP.
\* res.count is insert_count, which GET DIAGNOSTICS overwrites per sub-batch.
RECURSIVE BulkLoop(_, _, _, _)
BulkLoop(res, data, batch_index, t) ==
    IF ~(batch_index * batch_size < Len(data)) \/ ~res.db.ok THEN res
    ELSE
      LET current_batch ==
            SubSeq(data, batch_index * batch_size + 1,
                   Min((batch_index + 1) * batch_size - 1, Len(data) - 1) + 1)
          stmt == BulkStatement([res.db EXCEPT !.touched = {}],
                                current_batch, 1, t)
      IN  BulkLoop([db |-> stmt, count |-> Len(current_batch)],
                   data, batch_index + 1, t)

bulk_insert_telemetry(t0, c0, data, t) ==
    LET start == [db |-> [ok |-> TRUE, table |-> t0, chunks |-> c0,
                          touched |-> {}],
                  count |-> 0]
        done == BulkLoop(start, data, 0, t)
    IN  IF done.db.ok
        THEN [ok |-> TRUE, table |-> done.db.table, chunks |-> done.db.chunks,
              count |-> done.count]
        ELSE [ok |-> FALSE, table |-> t0, chunks |-> c0, count |-> 0]

\* ------------------------------------------------------------ track query

\* The columns get_vehicle_track_by_license_plate returns of a row.
TrackColumns(vt) ==
    [time |-> vt.time, longitude |-> vt.longitude, latitude |-> vt.latitude,
     speed |-> vt.speed, gps_speed |-> vt.gps_speed,
     direction |-> vt.direction, is_moving |-> vt.is_moving,
     driver_id |-> vt.driver_id, csq |-> vt.csq]

\* ORDER BY vt.time
RECURSIVE OrderByTime(_)
OrderByTime(rows) ==
    IF rows = {} THEN <<>>
    ELSE LET first == CHOOSE r \in rows : \A q \in rows : r.time <= q.time
         IN  <<first>> \o OrderByTime(rows \ {first})

\* LIMIT p_limit
Limit(rows, p_limit) == SubSeq(rows, 1, Min(p_limit, Len(rows)))

\* get_vehicle_track_by_license_plate: a negative LIMIT is an error.
get_vehicle_track_by_license_plate(t, p_license_plate, p_start_time, p_end_time, p_limit) ==
    IF p_limit < 0 THEN [ok |-> FALSE, rows |-> <<>>]
    ELSE
      LET selected == {vt \in t :
                         /\ vt.license_plate = p_license_plate
                         /\ vt.time >= p_start_time /\ vt.time <= p_end_time
                         /\ ~IsNull(vt.longitude)
                         /\ ~IsNull(vt.latitude)}
          ordered == OrderByTime(selected)
      IN  [ok |-> TRUE,
           rows |-> [i \in 1..Min(p_limit, Len(ordered)) |->
                       TrackColumns(Limit(ordered, p_limit)[i])]]

\* startTime || new Date(Date.now() - 24 * 60 * 60 * 1000)
StartOrDefault(startTime, clock) ==
    IF IsNull(startTime) THEN clock - DefaultTrackWindow ELSE Val(startTime)

\* endTime || new Date()
EndOrDefault(endTime, clock) ==
    IF IsNull(endTime) THEN clock ELSE Val(endTime)

\* limit || 1000 (0 is falsy)
LimitOrDefault(limit) ==
    IF IsNull(limit) \/ Val(limit) = 0 THEN DefaultLimit ELSE Val(limit)

\* TelemetryService.getVehicleTrack
getVehicleTrack(t, licensePlate, startTime, endTime, limit, clock) ==
    get_vehicle_track_by_license_plate(
        t, licensePlate, StartOrDefault(startTime, clock),
        EndOrDefault(endTime, clock), LimitOrDefault(limit))

\* TelemetryService.insertTelemetryBatch
insertTelemetryBatch(t, c, telemetryData, clock) ==
    bulk_insert_telemetry(t, c, telemetryData, clock)

\* ------------------------------------------------------------ nearby query

\* ST_Distance(geography, geography) in metres.  The model measures along
\* the grid, 111 km to the degree; ST_DWithin uses the same measure.
ST_Distance(g1, g2) == 111000 * (Abs(g1[1] - g2[1]) + Abs(g1[2] - g2[2]))

ST_DWithin(g1, g2, radius) == ST_Distance(g1, g2) <= radius

\* A timestamp in minutes (the clock counts half days).
Minutes(t) == t * 720

\* The point a nearby query measures from.
Center(p_longitude, p_latitude) ==
    Geography(ST_MakePoint(p_longitude, p_latitude))

\* The columns get_nearby_vehicles selects of a row.
NearbyColumns(vt, p_longitude, p_latitude) ==
    [license_plate |-> vt.license_plate, longitude |-> vt.longitude,
     latitude |-> vt.latitude,
     distance_meters |-> ST_Distance(vt.geog, Center(p_longitude, p_latitude)),
     time |-> vt.time, speed |-> vt.speed, is_moving |-> vt.is_moving]

\* ORDER BY distance_meters
RECURSIVE OrderByDistance(_)
OrderByDistance(rows) ==
    IF rows = {} THEN <<>>
    ELSE LET first == CHOOSE r \in rows :
                        \A q \in rows : r.distance_meters <= q.distance_meters
         IN  <<first>> \o OrderByDistance(rows \ {first})

\* The SELECT of get_nearby_vehicles: WHERE vt.time >= NOW() - p_time_window
\* AND vt.geog IS NOT NULL AND ST_DWithin(...) ORDER BY distance_meters
\* LIMIT 50.
NearbySelect(t, p_longitude, p_latitude, p_radius_meters, p_time_window, clock) ==
    Limit(OrderByDistance(
              {NearbyColumns(vt, p_longitude, p_latitude) :
                 vt \in {r \in t :
                           /\ Minutes(r.time) >= Minutes(clock) - p_time_window
                           /\ ~IsNull(r.geog)
                           /\ ST_DWithin(r.geog,
                                         Center(p_longitude, p_latitude),
                                         p_radius_meters)}}),
          NearbyLimit)

\* RETURNS TABLE (license_plate VARCHAR(20), longitude DECIMAL(10,7),
\* latitude DECIMAL(10,7), distance_meters DECIMAL(10,2), time TIMESTAMPTZ,
\* speed DECIMAL(5,2), is_moving BOOLEAN): the types the function declares.
NearbyDeclaredTypes ==
    <<"varchar", "numeric", "numeric", "numeric", "timestamptz", "numeric",
      "boolean">>

\* The types of the columns the SELECT produces: ST_Distance over
\* geographies is double precision.
NearbySelectTypes ==
    <<"varchar", "numeric", "numeric", "double precision", "timestamptz",
      "numeric", "boolean">>

\* get_nearby_vehicles: RETURN QUERY raises "structure of query does not
\* match function result type" unless every column of the query has the
\* declared type.
get_nearby_vehicles(t, p_longitude, p_latitude, p_radius_meters, p_time_window, clock) ==
    IF NearbySelectTypes = NearbyDeclaredTypes
    THEN [ok |-> TRUE,
          rows |-> NearbySelect(t, p_longitude, p_latitude, p_radius_meters,
                                p_time_window, clock)]
    ELSE [ok |-> FALSE, rows |-> <<>>]

\* TelemetryService.getNearbyVehicles
getNearbyVehicles(t, longitude, latitude, radiusMeters, timeWindowMinutes, clock) ==
    get_nearby_vehicles(t, longitude, latitude, radiusMeters,
                        timeWindowMinutes, clock)

\* radius ? parseInt(radius) : 1000
RadiusOrDefault(radius) ==
    IF IsNull(radius) THEN DefaultRadius ELSE Val(radius)

\* timeWindow ? parseInt(timeWindow) : 15
TimeWindowOrDefault(timeWindow) ==
    IF IsNull(timeWindow) THEN DefaultTimeWindow ELSE Val(timeWindow)

\* -------------------------------------------------------------- retention

\* A retention that drops every chunk that begins before clock - interval.
ChunksBegunBefore(cs, clock, days) ==
    {c \in cs : ChunkStart(c) < clock - days * Day}

\* The retention job of add_retention_policy(table, interval): it drops the
\* chunks that lie wholly before clock - interval (interval in days).
ChunksToDrop(cs, clock, days) ==
    {c \in cs : ChunkEnd(c) <= clock - days * Day}

\* A retention that deletes the rows older than clock - interval one by one.
delete_rows_older(t, cs, clock, days) ==
    [table |-> {r \in t : r.time >= clock - days * Day},
     chunks |-> {ChunkOf(r.time) : r \in {q \in t : q.time >= clock - days * Day}}]

\* Dropping a chunk removes its rows, all of them.
drop_chunks(t, cs, clock, days) ==
    [table |-> {r \in t : ChunkOf(r.time) \notin ChunksToDrop(cs, clock, days)},
     chunks |-> cs \ ChunksToDrop(cs, clock, days)]

\* emergency_cleanup_old_data: DELETE FROM telemetry.vehicle_telemetry WHERE
\* time < NOW() - INTERVAL '1 day' * p_days_to_keep.  The rows go one by
\* one; the chunks stay, emptied or thinned.
emergency_cleanup_old_data(t, cs, clock, p_days_to_keep) ==
    [table |-> {r \in t : ~(r.time < clock - Day * p_days_to_keep)},
     chunks |-> cs,
     deleted_count |->
         Cardinality({r \in t : r.time < clock - Day * p_days_to_keep})]

\* ------------------------------------------------------------ policy jobs

\* The jobs the migration schedules on telemetry.vehicle_telemetry, in days:
\* add_compression_policy(..., INTERVAL '7 days') and
\* add_retention_policy(..., INTERVAL '2 years').
MigrationJobs == [retention |-> 730, compression |-> 7]

\* SELECT * INTO policy FROM config.retention_policies
\* WHERE tenant_id = p_tenant_id AND data_type = 'vehicle_telemetry'.
TenantPolicy(ps, p_tenant_id) ==
    {p \in ps : p.tenant_id = p_tenant_id /\ p.data_type = "vehicle_telemetry"}

\* apply_tenant_retention_policy(p_tenant_id): IF FOUND, remove the
\* retention policy and the compression policy of the hypertable and add
\* them again with the day counts of the tenant's row.
apply_tenant_retention_policy(ps, js, p_tenant_id) ==
    IF TenantPolicy(ps, p_tenant_id) = {} THEN js
    ELSE LET policy == CHOOSE p \in TenantPolicy(ps, p_tenant_id) : TRUE
         IN  [retention |-> policy.retention_days,
              compression |-> policy.compression_days]

\* The compression job of add_compression_policy(table, compress_after): it
\* compresses the uncompressed chunks that lie wholly before
\* clock - compress_after (in days).
ChunksToCompress(cs, cz, clock, days) ==
    {c \in cs \ cz : ChunkEnd(c) <= clock - days * Day}

\* The compressed chunks after the job; the rows stay what they are.
compress_chunks(cs, cz, clock, days) ==
    cz \cup ChunksToCompress(cs, cz, clock, days)

\* Some element of the batch has its timestamp in a compressed chunk.
IntoCompressed(data, cz) ==
    \E i \in 1..Len(data) : ChunkOf(data[i].time) \in cz

\* What an INSERT ... ON CONFLICT DO UPDATE that reaches a compressed chunk
\* does depends on the TimescaleDB build, and the repository asks only for
\* "TimescaleDB 2.0+": the older builds reject the statement, the newer
\* ones decompress what it touches and carry it out.  These are the builds
\* that matter to a call with this batch.
Builds(data, cz) ==
    IF IntoCompressed(data, cz) THEN {"rejected", "carried_out"}
    ELSE {"carried_out"}

\* The outcome res of a bulk insert call, on a build of either kind.
OnCompressed(res, t0, c0, data, cz, build) ==
    IF res.ok /\ build = "rejected" /\ IntoCompressed(data, cz)
    THEN [ok |-> FALSE, table |-> t0, chunks |-> c0, count |-> 0]
    ELSE res


\* ---------------------------------------------------------------- rollups

\* time_bucket(width, time) / DATE_TRUNC('day', time): the start of the
\* bucket of width `width` that holds the timestamp.
time_bucket(width, t) == (t \div width) * width

\* SUM(speed) over rows whose speed is not NULL.
RECURSIVE SumSpeed(_)
SumSpeed(rows) ==
    IF rows = {} THEN 0
    ELSE LET r == CHOOSE x \in rows : TRUE
         IN  Val(r.speed) + SumSpeed(rows \ {r})

\* AVG(speed) over a group: NULL when no row of the group has a speed,
\* otherwise the quotient sum / count, kept as the pair <<sum, count>>.
AvgSpeed(rows) ==
    IF {r \in rows : ~IsNull(r.speed)} = {} THEN NULL
    ELSE <<SumSpeed({r \in rows : ~IsNull(r.speed)}),
           Cardinality({r \in rows : ~IsNull(r.speed)})>>

\* GROUP BY bucket, license_plate over the rows `from`.
GroupsByDay(from) ==
    {<<time_bucket(Day, r.time), r.license_plate>> : r \in from}

GroupRows(from, g) ==
    {r \in from : time_bucket(Day, r.time) = g[1] /\ r.license_plate = g[2]}

\* analytics.v_daily_vehicle_summary: ... FROM telemetry.vehicle_telemetry
\* WHERE geom IS NOT NULL GROUP BY DATE_TRUNC('day', time), license_plate.
v_daily_vehicle_summary(t) ==
    {[date |-> g[1], license_plate |-> g[2],
      total_records |-> Cardinality(GroupRows({r \in t : ~IsNull(r.geom)}, g)),
      avg_speed |-> AvgSpeed(GroupRows({r \in t : ~IsNull(r.geom)}, g))] :
        g \in GroupsByDay({r \in t : ~IsNull(r.geom)})}

\* analytics.cagg_vehicle_daily_summary: COUNT(*), AVG(speed) FILTER
\* (WHERE speed > 0) ... GROUP BY date, license_plate.
cagg_vehicle_daily_summary(t) ==
    {[date |-> g[1], license_plate |-> g[2],
      total_records |-> Cardinality(GroupRows(t, g)),
      avg_speed |-> AvgSpeed({r \in GroupRows(t, g) :
                                ~IsNull(r.speed) /\ Val(r.speed) > 0})] :
        g \in GroupsByDay(t)}

\* The collation order of the license plates.
PlateOrder(lp) == IF lp = "V1" THEN 1 ELSE 2

\* ORDER BY date DESC, license_plate
RECURSIVE OrderByDateDesc(_)
OrderByDateDesc(rows) ==
    IF rows = {} THEN <<>>
    ELSE LET first == CHOOSE r \in rows : \A q \in rows :
                        \/ r.date > q.date
                        \/ /\ r.date = q.date
                           /\ PlateOrder(r.license_plate)
                                <= PlateOrder(q.license_plate)
         IN  <<first>> \o OrderByDateDesc(rows \ {first})

\* TelemetryService.getVehicleDailySummary: SELECT * FROM
\* analytics.cagg_vehicle_daily_summary WHERE date BETWEEN $1 AND $2
\* [AND license_plate = $3] ORDER BY date DESC, license_plate.
getVehicleDailySummary(view, startDate, endDate, licensePlate) ==
    OrderByDateDesc(
        {row \in view :
           /\ row.date >= startDate /\ row.date <= endDate
           /\ IsNull(licensePlate) \/ row.license_plate = Val(licensePlate)})

\* ------------------------------------------------ config.retention_policies

\* PRIMARY KEY (tenant_id, data_type)
PolicyKey(p) == <<p.tenant_id, p.data_type>>

\* INSERT INTO config.retention_policies ... VALUES one row ... ON CONFLICT
\* (tenant_id, data_type) DO NOTHING.  The table states no condition on
\* the two day counts.
InsertPolicyDoNothing(ps, row) ==
    IF \E p \in ps : PolicyKey(p) = PolicyKey(row) THEN ps
    ELSE ps \cup {row}

\* The VALUES list, row after row.
RECURSIVE InsertPolicies(_, _)
InsertPolicies(ps, rows) ==
    IF rows = <<>> THEN ps
    ELSE InsertPolicies(InsertPolicyDoNothing(ps, Head(rows)), Tail(rows))

\* UPDATE config.retention_policies SET retention_days = ...,
\* compression_days = ... WHERE tenant_id = ... AND data_type = ...
UpdatePolicy(ps, tenant_id, data_type, retention_days, compression_days) ==
    {IF PolicyKey(p) = <<tenant_id, data_type>>
     THEN [p EXCEPT !.retention_days = retention_days,
                    !.compression_days = compression_days]
     ELSE p : p \in ps}

\* The rows the seed migration inserts for the tenants and data types of
\* the model.
SeedPolicies ==
    <<[tenant_id |-> "default", data_type |-> "vehicle_telemetry",
       retention_days |-> 730, compression_days |-> 7],
      [tenant_id |-> "enterprise", data_type |-> "vehicle_telemetry",
       retention_days |-> 2555, compression_days |-> 30],
      [tenant_id |-> "default", data_type |-> "device_status",
       retention_days |-> 365, compression_days |-> 3],
      [tenant_id |-> "enterprise", data_type |-> "device_status",
       retention_days |-> 730, compression_days |-> 7]>>

\* ---------------------------------------------------- rollup materialization

\* add_continuous_aggregate_policy('analytics.cagg_vehicle_daily_summary',
\* start_offset => INTERVAL '3 days', ...).
start_offset == 3 * Day

\* end_offset => INTERVAL '1 hour', rounded up to the resolution of the
\* clock: over whole clock readings "at most now - 1 hour" and "at most
\* now - 1" name the same instants.
end_offset == 1

\* The days that have a raw row or a materialized row.
DatesOf(cg, t) ==
    {row.date : row \in cg} \cup {time_bucket(Day, r.time) : r \in t}

\* A refresh that takes every bucket that overlaps the window.
BucketsOverlappingWindow(cg, t, window_start, window_end) ==
    {d \in DatesOf(cg, t) : d + Day > window_start /\ d < window_end}

\* The buckets a refresh of [window_start, window_end) materializes: those
\* that lie wholly inside the window.
BucketsToRefresh(cg, t, window_start, window_end) ==
    {d \in DatesOf(cg, t) : d >= window_start /\ d + Day <= window_end}

\* refresh_continuous_aggregate(cagg, window_start, window_end): the
\* buckets of the window are computed again from the raw rows, the others
\* are left as they are.
refresh_continuous_aggregate(cg, t, window_start, window_end) ==
    {row \in cg :
        row.date \notin BucketsToRefresh(cg, t, window_start, window_end)}
    \cup {row \in cagg_vehicle_daily_summary(t) :
        row.date \in BucketsToRefresh(cg, t, window_start, window_end)}

\* The refresh job of the policy, running when the clock reads `clock`.
policy_refresh(cg, t, clock) ==
    refresh_continuous_aggregate(cg, t, clock - start_offset,
                                 clock - end_offset)

\* The watermark: the end of the latest materialized bucket, NULL when
\* nothing is materialized.
Watermark(cg) ==
    IF cg = {} THEN NULL
    ELSE <<Day + (CHOOSE d \in {row.date : row \in cg} :
                    \A row \in cg : row.date <= d)>>

\* The view is created without timescaledb.materialized_only, so the
\* default of the build decides: materialized rows only, or (real-time
\* aggregation) the materialized rows below the watermark and the
\* aggregate of the raw rows from the watermark on.
MaterializedOnly == {TRUE, FALSE}

\* What SELECT ... FROM analytics.cagg_vehicle_daily_summary reads.
CaggView(cg, t, materialized_only) ==
    IF materialized_only THEN cg
    ELSE IF IsNull(Watermark(cg)) THEN cagg_vehicle_daily_summary(t)
    ELSE cg \cup cagg_vehicle_daily_summary(
                    {r \in t : r.time >= Val(Watermark(cg))})

\* --------------------------------------------------------- connection pool

\* new Pool({max: 20, ...}): the most clients the pool hands out.
max == 20

\* The pool: the number of clients checked out, the calls of the service
\* that hold a client, and the calls that wait for one, in order of arrival.
EmptyPool == [checked_out |-> 0, holding |-> EmptyBag, queue |-> <<>>]

\* pool.connect(): a client when fewer than max are checked out, otherwise
\* the caller waits in the queue.
connect(p, req) ==
    IF p.checked_out < max
    THEN [p EXCEPT !.checked_out = @ + 1, !.holding = @ (+) SetToBag({req})]
    ELSE [p EXCEPT !.queue = Append(@, req)]

\* client.release(): the client goes back to the pool, which hands it to the
\* caller at the head of the queue, if there is one.
release(p) ==
    IF p.queue = <<>> THEN [p EXCEPT !.checked_out = @ - 1]
    ELSE [p EXCEPT !.holding = @ (+) SetToBag({Head(p.queue)}),
                   !.queue = Tail(@)]

\* A service method that releases its client only after a query that
\* succeeded.
settle_on_success(p, req, ok) ==
    IF ok THEN release([p EXCEPT !.holding = @ (-) SetToBag({req})])
    ELSE [p EXCEPT !.holding = @ (-) SetToBag({req})]

\* try { ... await client.query(...) ... } finally { client.release(); }:
\* the call ends, whether the query succeeded (ok) or threw.
settle(p, req, ok) == release([p EXCEPT !.holding = @ (-) SetToBag({req})])


\* ------------------------------------------------------------------ inputs

LicensePlates == {"V1", "V2"}

\* Two complete, valid payloads that differ in every field.
PayloadA ==
    [imei |-> "i1", imsi |-> "s1", longitude |-> <<121>>, latitude |-> <<25>>,
     speed |-> <<0>>, gps_speed |-> <<1>>, direction |-> <<90>>,
     is_moving |-> FALSE, is_speeding |-> FALSE, csq |-> <<20>>,
     driver_id |-> "d1", log_sequence |-> <<1>>, crc_checksum |-> "c1",
     raw_data |-> "r1", data_source |-> NULL]

PayloadB ==
    [imei |-> "i2", imsi |-> "s2", longitude |-> <<122>>, latitude |-> <<26>>,
     speed |-> <<55>>, gps_speed |-> <<54>>, direction |-> <<180>>,
     is_moving |-> TRUE, is_speeding |-> TRUE, csq |-> <<21>>,
     driver_id |-> "d2", log_sequence |-> <<2>>, crc_checksum |-> "c2",
     raw_data |-> "r2", data_source |-> <<"legacy">>]

\* N: no GPS fix.  H: half a fix.  X: latitude 200.  S: negative speed.
\* Q: signal quality 32.  Z: payload B without a speed.
Payload(p) ==
    CASE p = "A" -> PayloadA
      [] p = "B" -> PayloadB
      [] p = "N" -> [PayloadA EXCEPT !.longitude = NULL, !.latitude = NULL]
      [] p = "H" -> [PayloadA EXCEPT !.latitude = NULL]
      [] p = "X" -> [PayloadA EXCEPT !.latitude = <<200>>]
      [] p = "S" -> [PayloadA EXCEPT !.speed = <<-1>>]
      [] p = "Q" -> [PayloadA EXCEPT !.csq = <<32>>]
      [] p = "Z" -> [PayloadB EXCEPT !.speed = NULL]

Record(lp, t, p) == [license_plate |-> lp, time |-> t] @@ Payload(p)

\* The batches of at most n records over recs.
Batches(recs, n) == UNION {[1..k -> recs] : k \in 1..n}

KeysOf(data) == {<<data[i].license_plate, data[i].time>> : i \in 1..Len(data)}

KeysIn(t) == {PrimaryKey(r) : r \in t}

\* ------------------------------------------------- concurrent transactions

\* Each SELECT bulk_insert_telemetry($1) of the service is a transaction of
\* its own (READ COMMITTED).  A transaction in progress is a record: its
\* batch, the index i of the element its INSERT treats next, the rows it has
\* written and not yet committed, and its status.  It holds the lock of
\* every key it has written until it ends.
Running(ss) == {s \in ss : s.status = "running"}

\* The keys a transaction has locked.
Locks(s) == KeysIn(s.writes)

\* What the transaction sees: the committed rows, and its own writes in
\* place of the committed rows of the same keys.
View(t, s) == {r \in t : PrimaryKey(r) \notin Locks(s)} \cup s.writes

\* The key the next element of the transaction goes to.
NextKey(s) == <<s.data[s.i].license_plate, s.data[s.i].time>>

\* The transaction waits: another transaction in progress holds the lock of
\* the key its next element goes to.
Waits(ss, s) ==
    /\ s.i <= Len(s.data)
    /\ \E o \in Running(ss) : o.id # s.id /\ NextKey(s) \in Locks(o)

\* The INSERT fails on its next element: a cast, a CHECK, or a key the
\* command has written already.
RowFails(t, s, clock) ==
    \/ ~CastsSucceed(s.data[s.i])
    \/ ~CheckConstraints(BulkProposed(s.data[s.i], clock))
    \/ NextKey(s) \in Locks(s)
    \/ ~CheckConstraints(BulkRow(View(t, s), s.data[s.i], clock))

\* The transaction after the INSERT has written its next element.
RowWritten(t, s, clock) ==
    [s EXCEPT !.i = s.i + 1,
              !.writes = s.writes \cup {BulkRow(View(t, s), s.data[s.i], clock)}]

\* ----------------------------------------------------------- state machine

\* last records the latest request and its response: which operation ran,
\* its status, the count it reported and the rows a query returned.
Idle == [op |-> "none", status |-> 0, count |-> 0, body |-> <<>>]

\* The database after the migrations, before any ingestion, with the clock
\* reading t.
InitAt(t) ==
    /\ table = {}
    /\ chunks = {}
    /\ now = t
    /\ last = Idle
    /\ policies = {}
    /\ jobs = MigrationJobs
    /\ compressed = {}
    /\ cagg = {}
    /\ pool = EmptyPool
    /\ sessions = {}

Init == InitAt(0)

\* A direct call SELECT bulk_insert_telemetry_simple(p_data).
CallBulkInsertSimple(data) ==
    \E build \in Builds(data, compressed) :
    \E res \in {OnCompressed(
                   bulk_insert_telemetry_simple(table, chunks, data, now),
                   table, chunks, data, compressed, build)} :
        /\ table' = res.table
        /\ chunks' = res.chunks
        /\ last' = [op |-> "simple",
                    status |-> IF res.ok THEN 200 ELSE 500,
                    count |-> res.count,
                    body |-> <<>>]
        /\ UNCHANGED <<now, policies, background>>

\* POST /telemetry/batch: TelemetryController.insertTelemetryBatch.
PostBatch(data) ==
    IF Len(data) = 0
    THEN /\ last' = [op |-> "post", status |-> 400, count |-> 0, body |-> <<>>]
         /\ UNCHANGED <<table, chunks, now, policies, background>>
    ELSE \E build \in Builds(data, compressed) :
         \E res \in {OnCompressed(
                        insertTelemetryBatch(table, chunks, data, now),
                        table, chunks, data, compressed, build)} :
             /\ table' = res.table
             /\ chunks' = res.chunks
             /\ last' = [op |-> "post",
                         status |-> IF res.ok THEN 201 ELSE 500,
                         count |-> res.count,
                         body |-> <<>>]
             /\ UNCHANGED <<now, policies, background>>

\* GET /telemetry/vehicle/:licensePlate/track:
\* TelemetryController.getVehicleTrack.
GetTrack(licensePlate, startTime, endTime, limit) ==
    \E res \in {getVehicleTrack(table, licensePlate, startTime, endTime,
                                limit, now)} :
        /\ last' = [op |-> "track",
                    status |-> IF res.ok THEN 200 ELSE 500,
                    count |-> Len(res.rows),
                    body |-> res.rows]
        /\ UNCHANGED <<table, chunks, now, policies, background>>

\* GET /telemetry/summary/vehicle/daily:
\* TelemetryController.getVehicleDailySummary.
GetVehicleDailySummary(startDate, endDate, licensePlate) ==
    /\ IF IsNull(startDate) \/ IsNull(endDate)
       THEN last' = [op |-> "summary", status |-> 400, count |-> 0,
                     body |-> <<>>]
       ELSE \E materialized_only \in MaterializedOnly :
            \E summary \in {getVehicleDailySummary(
                                CaggView(cagg, table, materialized_only),
                                Val(startDate), Val(endDate), licensePlate)} :
              last' = [op |-> "summary", status |-> 200,
                       count |-> Len(summary), body |-> summary]
    /\ UNCHANGED <<table, chunks, now, policies, background>>

\* GET /telemetry/nearby: TelemetryController.getNearbyVehicles.
GetNearby(longitude, latitude, radius, timeWindow) ==
    /\ IF IsNull(longitude) \/ IsNull(latitude)
       THEN last' = [op |-> "nearby", status |-> 400, count |-> 0,
                     body |-> <<>>]
       ELSE \E res \in {getNearbyVehicles(table, Val(longitude),
                            Val(latitude), RadiusOrDefault(radius),
                            TimeWindowOrDefault(timeWindow), now)} :
              last' = [op |-> "nearby",
                       status |-> IF res.ok THEN 200 ELSE 500,
                       count |-> Len(res.rows), body |-> res.rows]
    /\ UNCHANGED <<table, chunks, now, policies, background>>

\* Seed step 5: UPDATE ... SET geom, geog WHERE the coordinates are there
\* and a derived column is missing.  The row trigger fires on each row the
\* UPDATE touches.
SeedUpdateGeom ==
    /\ table' = {IF /\ ~IsNull(r.longitude) /\ ~IsNull(r.latitude)
                    /\ (IsNull(r.geom) \/ IsNull(r.geog))
                 THEN update_vehicle_telemetry_geom(
                        [r EXCEPT
                           !.geom = ST_MakePoint(Val(r.longitude), Val(r.latitude)),
                           !.geog = Geography(ST_MakePoint(Val(r.longitude),
                                                           Val(r.latitude)))])
                 ELSE r : r \in table}
    /\ last' = [op |-> "seed", status |-> 200, count |-> 0,
                body |-> <<>>]
    /\ UNCHANGED <<chunks, now, policies, background>>

\* The retention job runs with the interval it is configured with.
RetentionJob(days) ==
    \E res \in {drop_chunks(table, chunks, now, days)} :
        /\ table' = res.table
        /\ chunks' = res.chunks
        /\ compressed' = compressed \cap res.chunks
        /\ last' = [op |-> "retention", status |-> days,
                    count |-> Cardinality(chunks \ res.chunks),
                    body |-> <<>>]
        /\ UNCHANGED <<now, policies, jobs, cagg, pool, sessions>>

\* An operator calls emergency_cleanup_old_data(p_days_to_keep).
EmergencyCleanup(days) ==
    \E res \in {emergency_cleanup_old_data(table, chunks, now, days)} :
        /\ table' = res.table
        /\ chunks' = res.chunks
        /\ last' = [op |-> "cleanup", status |-> days,
                    count |-> res.deleted_count, body |-> <<>>]
        /\ UNCHANGED <<now, policies, background>>

\* The seed migration inserts the retention policies.
SeedRetentionPolicies ==
    /\ policies' = InsertPolicies(policies, SeedPolicies)
    /\ last' = [op |-> "policy_seed", status |-> 200,
                count |-> Cardinality(policies') - Cardinality(policies),
                body |-> <<>>]
    /\ UNCHANGED <<table, chunks, now, background>>

\* An operator inserts a policy.
InsertRetentionPolicy(row) ==
    /\ policies' = InsertPolicies(policies, <<row>>)
    /\ last' = [op |-> "policy_insert", status |-> 200,
                count |-> Cardinality(policies') - Cardinality(policies),
                body |-> <<>>]
    /\ UNCHANGED <<table, chunks, now, background>>

\* An operator updates the day counts of a policy.
UpdateRetentionPolicy(tenant_id, data_type, retention_days, compression_days) ==
    /\ policies' = UpdatePolicy(policies, tenant_id, data_type,
                                retention_days, compression_days)
    /\ last' = [op |-> "policy_update", status |-> 200,
                count |-> Cardinality({p \in policies :
                              PolicyKey(p) = <<tenant_id, data_type>>}),
                body |-> <<>>]
    /\ UNCHANGED <<table, chunks, now, background>>

\* An operator calls apply_tenant_retention_policy(p_tenant_id).
ApplyTenantRetentionPolicy(tenant_id) ==
    /\ jobs' = apply_tenant_retention_policy(policies, jobs, tenant_id)
    /\ last' = [op |-> "apply_policy", status |-> 200,
                count |-> Cardinality(TenantPolicy(policies, tenant_id)),
                body |-> <<>>]
    /\ UNCHANGED <<table, chunks, now, policies, compressed, cagg, pool, sessions>>

\* The compression job runs with the interval it is configured with.
CompressionJob(days) ==
    /\ compressed' = compress_chunks(chunks, compressed, now, days)
    /\ last' = [op |-> "compression", status |-> days,
                count |-> Cardinality(ChunksToCompress(chunks, compressed,
                                                       now, days)),
                body |-> <<>>]
    /\ UNCHANGED <<table, chunks, now, policies, jobs, cagg, pool, sessions>>

\* The refresh job of the daily rollup runs (schedule_interval 1 hour).
RefreshDaily ==
    /\ cagg' = policy_refresh(cagg, table, now)
    /\ last' = [op |-> "refresh", status |-> 200,
                count |-> Cardinality(
                    BucketsToRefresh(cagg, table, now - start_offset,
                                     now - end_offset)),
                body |-> <<>>]
    /\ UNCHANGED <<table, chunks, now, policies, jobs, compressed, pool, sessions>>

\* POST /telemetry/batch arrives and the service sends its SELECT
\* bulk_insert_telemetry($1): the transaction `id` begins.
BeginBatch(id, data) ==
    /\ Len(data) > 0
    /\ \A s \in sessions : s.id # id
    /\ sessions' = sessions \cup {[id |-> id, data |-> data, i |-> 1,
                                   writes |-> {}, status |-> "running"]}
    /\ last' = [op |-> "begin", status |-> 0, count |-> 0, body |-> <<>>]
    /\ UNCHANGED <<table, chunks, now, policies, jobs, compressed, cagg, pool>>

\* The INSERT of transaction `id` treats its next element, unless it has to
\* wait for a lock.  An error ends the transaction and the request: nothing
\* it wrote is kept, and the controller answers 500.
WriteRow(id) ==
    \E s \in Running(sessions) :
        /\ s.id = id
        /\ s.i <= Len(s.data)
        /\ ~Waits(sessions, s)
        /\ IF RowFails(table, s, now)
           THEN /\ sessions' = (sessions \ {s})
                       \cup {[s EXCEPT !.status = "aborted", !.writes = {}]}
                /\ last' = [op |-> "post", status |-> 500, count |-> 0,
                            body |-> <<>>]
           ELSE /\ sessions' = (sessions \ {s}) \cup {RowWritten(table, s, now)}
                /\ last' = [op |-> "row", status |-> 0, count |-> s.i,
                            body |-> <<>>]
        /\ UNCHANGED <<table, chunks, now, policies, jobs, compressed, cagg, pool>>

\* Two transactions wait for each other: the deadlock detector ends one of
\* them with an error, and the controller answers 500.
Deadlock(id) ==
    \E s \in Running(sessions) :
        /\ s.id = id
        /\ Waits(sessions, s)
        /\ \E o \in Running(sessions) :
              /\ o.id # s.id
              /\ NextKey(s) \in Locks(o)
              /\ o.i <= Len(o.data) /\ NextKey(o) \in Locks(s)
        /\ sessions' = (sessions \ {s})
               \cup {[s EXCEPT !.status = "aborted", !.writes = {}]}
        /\ last' = [op |-> "post", status |-> 500, count |-> 0, body |-> <<>>]
        /\ UNCHANGED <<table, chunks, now, policies, jobs, compressed, cagg, pool>>

\* The function returns and the transaction commits: its rows become the
\* committed rows of their keys, and the controller answers 201 with the
\* count the function returned.
Commit(id) ==
    \E s \in Running(sessions) :
        /\ s.id = id
        /\ s.i > Len(s.data)
        /\ table' = View(table, s)
        /\ chunks' = chunks \cup {ChunkOf(r.time) : r \in s.writes}
        /\ sessions' = (sessions \ {s}) \cup {[s EXCEPT !.status = "committed"]}
        /\ last' = [op |-> "post", status |-> 201,
                    count |-> bulk_insert_telemetry(table, chunks, s.data, now).count,
                    body |-> <<>>]
        /\ UNCHANGED <<now, policies, jobs, compressed, cagg, pool>>

\* A request arrives and its service method calls pool.connect().
Request(req) ==
    /\ pool.checked_out < max \/ Len(pool.queue) < MaxWaiting
    /\ pool' = connect(pool, req)
    /\ last' = [op |-> "connect", status |-> 0, count |-> pool'.checked_out,
                body |-> <<>>]
    /\ UNCHANGED <<table, chunks, now, policies, jobs, compressed, cagg, sessions>>

\* The query of a call that holds a client ends; the finally block releases
\* the client and the controller answers.
Respond(req) ==
    /\ BagIn(req, pool.holding)
    /\ IF req.op = "track"
       THEN \E res \in {getVehicleTrack(table, req.licensePlate, NULL, NULL,
                                        NULL, now)} :
              /\ last' = [op |-> "track",
                          status |-> IF res.ok THEN 200 ELSE 500,
                          count |-> Len(res.rows), body |-> res.rows]
              /\ pool' = settle(pool, req, res.ok)
              /\ UNCHANGED <<table, chunks>>
       ELSE \E build \in Builds(req.data, compressed) :
            \E res \in {OnCompressed(
                           insertTelemetryBatch(table, chunks, req.data, now),
                           table, chunks, req.data, compressed, build)} :
              /\ table' = res.table
              /\ chunks' = res.chunks
              /\ last' = [op |-> "post",
                          status |-> IF res.ok THEN 201 ELSE 500,
                          count |-> res.count, body |-> <<>>]
              /\ pool' = settle(pool, req, res.ok)
    /\ UNCHANGED <<now, policies, jobs, compressed, cagg, sessions>>

\* A caller has waited connectionTimeoutMillis for a client: pool.connect()
\* rejects, the service method throws before its try block and the
\* controller answers 500.
ConnectTimeout(i) ==
    /\ i \in 1..Len(pool.queue)
    /\ pool' = [pool EXCEPT !.queue = SubSeq(@, 1, i - 1)
                                     \o SubSeq(@, i + 1, Len(@))]
    /\ last' = [op |-> pool.queue[i].op, status |-> 500, count |-> 0,
                body |-> <<>>]
    /\ UNCHANGED <<table, chunks, now, policies, jobs, compressed, cagg, sessions>>

\* Time passes.
Tick ==
    /\ now < MaxTime
    /\ now' = now + 1
    /\ last' = Idle
    /\ UNCHANGED <<table, chunks, policies, background>>

\* The two bulk insert functions by name.
Fns == {"simple", "bulk"}

Ingest(fn, t, c, data, clock) ==
    IF fn = "simple" THEN bulk_insert_telemetry_simple(t, c, data, clock)
    ELSE insertTelemetryBatch(t, c, data, clock)

\* ------------------------------------------------ Spec: upsert and merge

\* Both bulk insert functions over three keys: vehicle V1 at time 1 with the
\* payloads A, B and H, and V1 at time 2 and V2 at time 1 with payload A.
MergeRecords ==
    {Record("V1", 1, p) : p \in {"A", "B", "H"}}
        \cup {Record("V1", 2, "A"), Record("V2", 1, "A")}

MergeBatches == Batches(MergeRecords, MaxBatch)

Next ==
    \/ \E data \in MergeBatches : CallBulkInsertSimple(data)
    \/ \E data \in MergeBatches \cup {<<>>} : PostBatch(data)
    \/ SeedUpdateGeom

Spec == Init /\ [][Next]_vars

\* ------------------------------------------- SpecTrack: ingest, then read

\* V1 at time 1 with A, B or no fix, V1 at time 2 with A or B, V2 at time 1.
TrackRecords ==
    {Record("V1", 1, p) : p \in {"A", "B", "N"}}
        \cup {Record("V1", 2, p) : p \in {"A", "B"}}
        \cup {Record("V2", 1, "A")}

\* The query parameters a caller may leave out (NULL) or give.
TrackStarts == {NULL, <<2>>}

TrackEnds == {NULL, <<1>>}

TrackLimits == {NULL, <<1>>, <<20000>>}

InitTrack == InitAt(DefaultTrackWindow)

NextTrack ==
    \/ \E data \in Batches(TrackRecords, 1) : PostBatch(data)
    \/ \E lp \in LicensePlates : \E s \in TrackStarts : \E e \in TrackEnds :
         \E l \in TrackLimits : GetTrack(lp, s, e, l)

SpecTrack == InitTrack /\ [][NextTrack]_vars

\* --------------------------------- SpecBatch: batches with invalid records

\* V1 at time 1 with A, latitude 200, speed -1 or csq 32; V1 at time 2 and
\* V2 at time 1 with A.
BatchRecords ==
    {Record("V1", 1, p) : p \in {"A", "X", "S", "Q"}}
        \cup {Record("V1", 2, "A"), Record("V2", 1, "A")}

BatchBatches == Batches(BatchRecords, MaxBatch)

NextBatch ==
    \/ \E data \in BatchBatches : CallBulkInsertSimple(data)
    \/ \E data \in BatchBatches \cup {<<>>} : PostBatch(data)

SpecBatch == Init /\ [][NextBatch]_vars

\* ------------------------------------- SpecRetention: the retention job

\* V1 with payload A at the four timestamps of the first two chunks.
RetentionRecords == {Record("V1", t, "A") : t \in 0..(2 * ChunkInterval - 1)}

NextRetention ==
    \/ \E data \in Batches(RetentionRecords, 1) : PostBatch(data)
    \/ Tick
    \/ \E days \in 1..MaxRetentionDays : RetentionJob(days)

SpecRetention == Init /\ [][NextRetention]_vars

\* ------------------------------- SpecCleanup: retention and the cleanup

NextCleanup ==
    \/ \E data \in Batches(RetentionRecords, 1) : PostBatch(data)
    \/ Tick
    \/ \E days \in 1..MaxRetentionDays : RetentionJob(days)
    \/ \E days \in 1..MaxRetentionDays : EmergencyCleanup(days)

SpecCleanup == Init /\ [][NextCleanup]_vars

\* ------------------------------------------ SpecRollup: the daily rollups

\* V1 on day 0 at time 0 (standing, moving or without a fix) and at time 1
\* (moving or without a speed), V1 on day 1 and V2 on day 0.
RollupRecords ==
    {Record("V1", 0, p) : p \in {"A", "B", "N"}}
        \cup {Record("V1", 1, p) : p \in {"B", "Z"}}
        \cup {Record("V1", 2, "B"), Record("V2", 0, "A")}

\* The dates a caller may give (or leave out).
SummaryDates == {NULL, <<0>>, <<2>>}

NextRollup ==
    \/ \E data \in Batches(RollupRecords, 1) : PostBatch(data)
    \/ \E s \in SummaryDates : \E e \in SummaryDates :
         \E lp \in {NULL, <<"V1">>} : GetVehicleDailySummary(s, e, lp)

SpecRollup == Init /\ [][NextRollup]_vars

\* ------------------------------------------ SpecNearby: the radius query

\* V1 and V2 at the current time 2, at the place of A or of B or without a
\* fix, and V1 half a day earlier.
NearbyRecords ==
    {Record("V1", 2, p) : p \in {"A", "B", "N"}}
        \cup {Record("V2", 2, p) : p \in {"A", "B"}}
        \cup {Record("V1", 1, "A")}

\* The query parameters a caller may leave out (NULL) or give.
NearbyLongitudes == {NULL, <<121>>}

NearbyLatitudes == {NULL, <<25>>}

NearbyRadii == {NULL, <<250000>>}

NearbyWindows == {NULL, <<720>>}

NextNearby ==
    \/ \E data \in Batches(NearbyRecords, 1) : PostBatch(data)
    \/ \E lon \in NearbyLongitudes : \E lat \in NearbyLatitudes :
         \E radius \in NearbyRadii : \E tw \in NearbyWindows :
           GetNearby(lon, lat, radius, tw)

SpecNearby == InitTrack /\ [][NextNearby]_vars

\* ------------------------------------- SpecPolicy: the retention policies

Tenants == {"default", "enterprise"}

DataTypes == {"vehicle_telemetry", "device_status"}

\* The day counts an operator may write.
RetentionChoices == {365, 730}

CompressionChoices == {7, 1095}

PolicyRows ==
    [tenant_id : Tenants, data_type : DataTypes,
     retention_days : RetentionChoices, compression_days : CompressionChoices]

NextPolicy ==
    \/ SeedRetentionPolicies
    \/ \E row \in PolicyRows : InsertRetentionPolicy(row)
    \/ \E tn \in Tenants : \E dt \in DataTypes :
         \E r \in RetentionChoices : \E c \in CompressionChoices :
           UpdateRetentionPolicy(tn, dt, r, c)

SpecPolicy == Init /\ [][NextPolicy]_vars

\* ------------------------------ SpecTenant: the policies of two tenants

\* One vehicle at three timestamps of the first two chunks.
TenantRecords == {Record("V1", t, "A") : t \in {0, 1, 2}}

\* The tenants' rows for the vehicle telemetry, with day counts the clock
\* of the model reaches: the default tenant keeps its data for a shorter
\* time than the enterprise tenant, as in the seed.
TenantRows ==
    {[tenant_id |-> "default", data_type |-> "vehicle_telemetry",
      retention_days |-> 1, compression_days |-> 1],
     [tenant_id |-> "enterprise", data_type |-> "vehicle_telemetry",
      retention_days |-> 3, compression_days |-> 2]}

NextTenant ==
    \/ \E data \in Batches(TenantRecords, 1) : PostBatch(data)
    \/ Tick
    \/ \E row \in TenantRows : InsertRetentionPolicy(row)
    \/ \E tn \in Tenants : ApplyTenantRetentionPolicy(tn)
    \/ RetentionJob(jobs.retention)
    \/ CompressionJob(jobs.compression)

SpecTenant == Init /\ [][NextTenant]_vars

\* --------------------------- SpecRefresh: the refresh of the daily rollup

\* V1 standing or moving at the start of day 0, and a record that is two
\* days old when the clock starts: it arrives in time to be rolled up, or
\* late, when its day has left the refresh window.
RefreshRecords ==
    {Record("V1", 0, p) : p \in {"A", "B"}} \cup {Record("V1", -4, "A")}

\* The days a summary request names.
RefreshDates == {<<-4>>, <<0>>}

NextRefresh ==
    \/ \E data \in Batches(RefreshRecords, 1) : PostBatch(data)
    \/ Tick
    \/ RefreshDaily
    \/ \E s \in RefreshDates : \E e \in RefreshDates :
         GetVehicleDailySummary(s, e, NULL)

SpecRefresh == Init /\ [][NextRefresh]_vars

\* schedule_interval => INTERVAL '1 hour': the job runs many times between
\* two readings of the clock, so the clock advances only when the rollup
\* holds what a refresh at the present reading yields.
ScheduledTick ==
    /\ policy_refresh(cagg, table, now) = cagg
    /\ Tick

\* The refresh job is scheduled every hour and the clock advances: neither
\* is put off for ever.
NextRefreshScheduled ==
    \/ \E data \in Batches(RefreshRecords, 1) : PostBatch(data)
    \/ ScheduledTick
    \/ RefreshDaily
    \/ \E s \in RefreshDates : \E e \in RefreshDates :
         GetVehicleDailySummary(s, e, NULL)

SpecRefreshFair ==
    /\ Init /\ [][NextRefreshScheduled]_vars
    /\ WF_vars(RefreshDaily) /\ WF_vars(ScheduledTick)

\* ---------------------- SpecSubBatch: batches of more than one sub-batch

\* V1 with payload A at six timestamps, one record a request.
SubBatchRecords == {Record("V1", t, "A") : t \in 1..6}

\* A batch one record longer than a sub-batch: batch_size records in the
\* first sub-batch, one in the second, all valid and on keys of their own.
FullBatch == [i \in 1..(batch_size + 1) |-> Record("V1", i, "A")]

\* The same batch with a negative speed in the last record (the second
\* sub-batch) or in the first record (the first sub-batch).
TailFails == [FullBatch EXCEPT ![batch_size + 1] = Record("V1", batch_size + 1, "S")]

HeadFails == [FullBatch EXCEPT ![1] = Record("V1", 1, "S")]

NextSubBatch ==
    \/ \E data \in Batches(SubBatchRecords, 1) : PostBatch(data)
    \/ \E data \in {FullBatch, TailFails, HeadFails} : PostBatch(data)

SpecSubBatch == Init /\ [][NextSubBatch]_vars

\* ------------------------------------ SpecConcurrent: two batches at once

\* The two requests in progress.
SessionIds == {"s1", "s2"}

\* V1 at the times 1 and 2, standing (A) or moving and speeding (B).
ConcurrentRecords == {Record("V1", t, p) : t \in {1, 2}, p \in {"A", "B"}}

NextConcurrent ==
    \/ \E id \in SessionIds : \E data \in Batches(ConcurrentRecords, MaxBatch) :
         BeginBatch(id, data)
    \/ \E id \in SessionIds : WriteRow(id)
    \/ \E id \in SessionIds : Deadlock(id)
    \/ \E id \in SessionIds : Commit(id)

SpecConcurrent == Init /\ [][NextConcurrent]_vars

\* ------------------------------------- SpecPool: the clients of the pool

\* A track query, which succeeds, and a batch whose record has a negative
\* speed, whose query fails.
PoolRequests ==
    {[op |-> "track", licensePlate |-> "V1", data |-> <<>>],
     [op |-> "post", licensePlate |-> "V1", data |-> <<Record("V1", 1, "S")>>]}

NextPool ==
    \/ \E req \in PoolRequests : Request(req)
    \/ \E req \in PoolRequests : Respond(req)
    \/ \E i \in 1..MaxWaiting : ConnectTimeout(i)

SpecPool == Init /\ [][NextPool]_vars

\* ------------------------------------------------------------------ claims

\* The row a record becomes when it is inserted on a free key at time 0.
Stored(fn, rec) ==
    update_vehicle_telemetry_geom(
        IF fn = "simple" THEN SimpleValues(rec, 0) ELSE BulkValues(rec, 0))

IngestOk == last.op \in {"simple", "post"} /\ last.status \in {200, 201}

\* C1: after any sequence of ingestion batches the table holds at most one
\* row for each (license_plate, time) pair.
C1_KeyUnique ==
    \A r1 \in table : \A r2 \in table :
        (r1.license_plate = r2.license_plate /\ r1.time = r2.time) => r1 = r2

\* A batch has met a key that was already stored with other values: the row
\* of V1 at time 1 was inserted from payload A and merged with payload B,
\* and it is the only row of that key.
C1_Witness ==
    /\ IngestOk
    /\ \E r \in table :
         /\ r.license_plate = "V1" /\ r.time = 1
         /\ r.imei = "i1" /\ r.raw_data = "r2"
    /\ Cardinality({r \in table : r.license_plate = "V1" /\ r.time = 1}) = 1

\* C2: for every record r, either function and every reachable table,
\* ingesting r a second time (at the same or a later clock) leaves the table
\* that ingesting r once leaves.
C2_IdempotentUpsert ==
    \A fn \in Fns : \A rec \in MergeRecords :
      \A once \in {Ingest(fn, table, chunks, <<rec>>, now)} :
        \A later \in {now, now + 1} :
          \A twice \in {Ingest(fn, once.table, once.chunks, <<rec>>, later)} :
            /\ twice.ok = once.ok
            /\ twice.table = once.table
            /\ twice.chunks = once.chunks

\* Record B is stored for V1 at time 1 exactly as one ingestion of B left
\* it, so that ingesting B now is the second ingestion.
C2_Witness ==
    /\ IngestOk
    /\ \E fn \in Fns : Stored(fn, Record("V1", 1, "B")) \in table

\* C3: when an ingested record collides with a stored row, longitude,
\* latitude, speed, is_moving, is_speeding and raw_data of the stored row
\* take the value of the incoming record.
C3_HotFieldsOverwritten ==
    \A fn \in Fns : \A rec \in MergeRecords :
      \A res \in {Ingest(fn, table, chunks, <<rec>>, now)} :
        (res.ok /\ Conflicting(table, rec) # {}) =>
          \A row \in Conflicting(res.table, rec) :
            /\ row.longitude = rec.longitude
            /\ row.latitude = rec.latitude
            /\ row.speed = rec.speed
            /\ row.is_moving = rec.is_moving
            /\ row.is_speeding = rec.is_speeding
            /\ row.raw_data = rec.raw_data

\* C4: when an ingested record collides with a stored row, imei, imsi,
\* driver_id, csq, log_sequence, crc_checksum, created_at and data_source of
\* the stored row keep the value they had.
C4_AuditFieldsKept ==
    \A fn \in Fns : \A rec \in MergeRecords : \A later \in {now, now + 1} :
      \A res \in {Ingest(fn, table, chunks, <<rec>>, later)} :
        \A old \in Conflicting(table, rec) :
          res.ok =>
            \A row \in Conflicting(res.table, rec) :
              /\ row.imei = old.imei
              /\ row.imsi = old.imsi
              /\ row.driver_id = old.driver_id
              /\ row.csq = old.csq
              /\ row.log_sequence = old.log_sequence
              /\ row.crc_checksum = old.crc_checksum
              /\ row.created_at = old.created_at
              /\ row.data_source = old.data_source

\* C5: for every row, geom and geog are non-null exactly when longitude and
\* latitude both are, and then they are the point of the row's current
\* longitude and latitude.
C5_SpatialDerivation ==
    \A r \in table :
      /\ ~IsNull(r.geom) <=> (~IsNull(r.longitude) /\ ~IsNull(r.latitude))
      /\ ~IsNull(r.geog) <=> (~IsNull(r.longitude) /\ ~IsNull(r.latitude))
      /\ ~IsNull(r.geom) => r.geom = <<Val(r.longitude), Val(r.latitude)>>
      /\ ~IsNull(r.geog) => r.geog = Geography(r.geom)

\* A conflicting upsert has moved a row inserted from payload A to the
\* coordinates of payload B, and another has taken the fix away from a row.
C5_Witness ==
    /\ IngestOk
    /\ \E r \in table :
         /\ r.imei = "i1" /\ r.longitude = <<122>> /\ r.latitude = <<26>>
         /\ r.geom = <<122, 26>>

C5_WitnessNull ==
    /\ IngestOk
    /\ \E r \in table :
         /\ r.imei = "i2" /\ r.longitude = <<121>> /\ IsNull(r.latitude)
         /\ IsNull(r.geom)

\* The positions of a track response that carry timestamp T.
TrackEntriesAt(rows, T) == {i \in 1..Len(rows) : rows[i].time = T}

\* The track entry is the one of record rec.
ShowsRecord(entry, rec) ==
    /\ entry.speed = rec.speed
    /\ entry.longitude = rec.longitude
    /\ entry.latitude = rec.latitude

\* Two records of one key that differ in position and in speed.
SameKeyOtherFix(r1, r2) ==
    /\ r1.license_plate = r2.license_plate /\ r1.time = r2.time
    /\ r1.longitude # r2.longitude /\ r1.latitude # r2.latitude
    /\ r1.speed # r2.speed

\* The stored rows of rec's vehicle with a fix, from time lo up to rec's.
FixesUpTo(t, rec, lo) ==
    {row \in t : /\ row.license_plate = rec.license_plate
                 /\ row.time >= lo /\ row.time <= rec.time
                 /\ ~IsNull(row.longitude) /\ ~IsNull(row.latitude)}

InDomain(r) ==
    /\ IsNull(r.speed) \/ Val(r.speed) >= 0
    /\ IsNull(r.latitude) \/ (Val(r.latitude) >= -90 /\ Val(r.latitude) <= 90)
    /\ IsNull(r.longitude)
         \/ (Val(r.longitude) >= -180 /\ Val(r.longitude) <= 180)
    /\ IsNull(r.csq) \/ (Val(r.csq) >= 0 /\ Val(r.csq) <= 31)

\* The batches of distinct keys in which exactly one record is out of range
\* and at least one is in range.
OneInvalid(data) ==
    /\ Cardinality(KeysOf(data)) = Len(data)
    /\ Len(data) >= 2
    /\ Cardinality({i \in 1..Len(data) : ~InDomain(data[i])}) = 1

\* C7: when a batch holds one invalid record among valid ones, ingestion
\* succeeds, every valid record of the batch is stored with its position and
\* speed, and the invalid record leaves the rows of its key as they were.
C7_BatchPartialSuccess ==
    \A fn \in Fns : \A data \in BatchBatches :
      OneInvalid(data) =>
        \A res \in {Ingest(fn, table, chunks, data, now)} :
          /\ res.ok
          /\ \A i \in 1..Len(data) :
               IF InDomain(data[i])
               THEN /\ Conflicting(res.table, data[i]) # {}
                    /\ \A row \in Conflicting(res.table, data[i]) :
                         ShowsRecord(row, data[i])
               ELSE Conflicting(res.table, data[i])
                      = Conflicting(table, data[i])

\* C8: every stored row has speed >= 0, latitude in [-90, 90], longitude in
\* [-180, 180] and csq in [0, 31].
C8_DomainRange == \A r \in table : InDomain(r)

\* The record is returned by the track query of its vehicle at its time.
Returned(t, r) ==
    \E resp \in {getVehicleTrack(t, r.license_plate, <<r.time>>, <<r.time>>,
                                 NULL, now)} :
      resp.ok /\ TrackEntriesAt(resp.rows, r.time) # {}

\* The rows of chunk c in table t.
RowsOfChunk(t, c) == {r \in t : ChunkOf(r.time) = c}

\* C9 as stated: after retention with interval D is applied at time now, no
\* record older than now - D is returned, and every stored record with a
\* timestamp >= now - D is still returned.
C9_RetentionBoundary ==
    \A days \in 1..MaxRetentionDays :
      \A res \in {drop_chunks(table, chunks, now, days)} :
        /\ \A r \in table :
             r.time < now - days * Day => ~Returned(res.table, r)
        /\ \A r \in table :
             r.time >= now - days * Day => Returned(res.table, r)

\* C9 amended: after retention with interval D is applied at time now, no
\* record of a chunk that ends at or before now - D is returned, and every
\* stored record with a timestamp >= now - D is still returned.
C9_RetentionChunkBoundary ==
    \A days \in 1..MaxRetentionDays :
      \A res \in {drop_chunks(table, chunks, now, days)} :
        /\ \A r \in table :
             ChunkEnd(ChunkOf(r.time)) <= now - days * Day
               => ~Returned(res.table, r)
        /\ \A r \in table :
             r.time >= now - days * Day => Returned(res.table, r)

\* The retention job has dropped a chunk with its rows and has left rows
\* that are inside the window.
C9_Witness ==
    /\ last.op = "retention" /\ last.count >= 1
    /\ \E r \in table : r.time >= now - last.status * Day
    /\ \A r \in table : ChunkEnd(ChunkOf(r.time)) > now - last.status * Day

\* C10: retention leaves every chunk either whole or gone: a chunk that
\* holds a timestamp inside the window keeps all its rows, and a chunk loses
\* its rows only when it lies wholly before now - D, and then all of them.
C10_ChunkGranular ==
    \A days \in 1..MaxRetentionDays :
      \A res \in {drop_chunks(table, chunks, now, days)} :
        \A c \in chunks :
          IF ChunkEnd(c) > now - days * Day
          THEN c \in res.chunks /\ RowsOfChunk(res.table, c) = RowsOfChunk(table, c)
          ELSE c \notin res.chunks /\ RowsOfChunk(res.table, c) = {}

\* The retention job has run with a cutoff that falls inside a chunk: the
\* chunk is still there with its two rows, one of them older than the cutoff.
C10_Witness ==
    /\ last.op = "retention"
    /\ \E c \in chunks :
         /\ ChunkStart(c) < now - last.status * Day
         /\ ChunkEnd(c) > now - last.status * Day
         /\ Cardinality(RowsOfChunk(table, c)) = ChunkInterval
         /\ \E r \in RowsOfChunk(table, c) : r.time < now - last.status * Day

\* C11: no operation other than the retention drop of chunks removes a
\* stored record: after an ingestion by either function and after the
\* emergency cleanup, every key that was stored is still stored.
C11_OnlyRetentionRemoves ==
    /\ \A fn \in Fns : \A rec \in RetentionRecords :
         \A res \in {Ingest(fn, table, chunks, <<rec>>, now)} :
           KeysIn(table) \subseteq KeysIn(res.table)
    /\ \A days \in 1..MaxRetentionDays :
         \A res \in {emergency_cleanup_old_data(table, chunks, now, days)} :
           KeysIn(table) \subseteq KeysIn(res.table)

\* The raw rows of entity lp whose timestamp lies in the day that starts at
\* date.
RawRows(date, lp) ==
    {r \in table : /\ r.license_plate = lp
                   /\ r.time >= date /\ r.time < date + Day}

\* The rows of both daily summaries at this moment.
DailyRollups == v_daily_vehicle_summary(table) \cup cagg_vehicle_daily_summary(table)

\* C12: in every row of a daily summary the record count is the number of
\* raw rows of that vehicle whose timestamp lies in the bucket, whatever
\* their other fields hold.
C12_RollupCount ==
    \A row \in DailyRollups :
        row.total_records = Cardinality(RawRows(row.date, row.license_plate))

\* Two quotients <<sum, count>> (or NULL) stand for the same mean.
SameMean(a, b) ==
    IF IsNull(a) \/ IsNull(b) THEN a = b ELSE a[1] * b[2] = b[1] * a[2]

\* C13: in every row of a daily summary avg_speed is the arithmetic mean of
\* speed over exactly the raw rows of that vehicle and bucket whose speed
\* is not null.
C13_RollupAverage ==
    \A row \in DailyRollups :
        SameMean(row.avg_speed,
                 AvgSpeed(RawRows(row.date, row.license_plate)))

\* The stored rows inside the time window of a nearby query that lie within
\* radius of the centre.
WithinRadius(lon, lat, radius, tw) ==
    {r \in table : /\ Minutes(r.time) >= Minutes(now) - tw
                   /\ ~IsNull(r.geog)
                   /\ ST_Distance(r.geog, Center(lon, lat)) <= radius}

\* C14: for every centre, radius and window, the nearby query answers with
\* exactly the stored records of the window whose distance to the centre is
\* at most the radius (up to the result cap), in ascending distance.
C14_RadiusQuery ==
    \A lon \in NearbyLongitudes \ {NULL} : \A lat \in NearbyLatitudes \ {NULL} :
      \A radius \in NearbyRadii : \A tw \in NearbyWindows :
        \A res \in {getNearbyVehicles(table, Val(lon), Val(lat),
                        RadiusOrDefault(radius), TimeWindowOrDefault(tw),
                        now)} :
          /\ res.ok
          /\ Len(res.rows) =
               Min(NearbyLimit,
                   Cardinality(WithinRadius(Val(lon), Val(lat),
                       RadiusOrDefault(radius), TimeWindowOrDefault(tw))))
          /\ \A i \in 1..Len(res.rows) :
               \E r \in WithinRadius(Val(lon), Val(lat),
                            RadiusOrDefault(radius), TimeWindowOrDefault(tw)) :
                 /\ r.license_plate = res.rows[i].license_plate
                 /\ r.time = res.rows[i].time
          /\ \A i \in 1..Len(res.rows) : \A j \in i..Len(res.rows) :
               res.rows[i].distance_meters <= res.rows[j].distance_meters

\* The chunks of the table whose time range holds the timestamp.
ChunksCovering(t) ==
    {c \in chunks : ChunkStart(c) <= t /\ t < ChunkEnd(c)}

C16_TrackDescending ==
    \A lp \in LicensePlates : \A s \in TrackStarts : \A e \in TrackEnds :
      \A l \in TrackLimits :
        \A resp \in {getVehicleTrack(table, lp, s, e, l, now)} :
          resp.ok =>
            \A i \in 1..Len(resp.rows) : \A j \in i..Len(resp.rows) :
              resp.rows[i].time >= resp.rows[j].time

\* C17: a track query whose start lies after its end fails; it does not
\* answer with a result set.
C17_InvalidRange ==
    \A lp \in LicensePlates : \A s \in TrackStarts : \A e \in TrackEnds :
      \A l \in TrackLimits :
        StartOrDefault(s, now) > EndOrDefault(e, now) =>
          \A resp \in {getVehicleTrack(table, lp, s, e, l, now)} : ~resp.ok

\* C18: a track query without parameters runs over the last 24 hours up to
\* now with limit 1000, and whatever limit the caller asks for, the LIMIT
\* the query runs with, and so the number of rows it answers with, is at
\* most 10000.
C18_TrackDefaultsAndCap ==
    /\ \A lp \in LicensePlates :
         getVehicleTrack(table, lp, NULL, NULL, NULL, now)
           = get_vehicle_track_by_license_plate(table, lp, now - Day, now,
                                                1000)
    /\ \A l \in TrackLimits : LimitOrDefault(l) <= 10000
    /\ \A lp \in LicensePlates : \A s \in TrackStarts : \A e \in TrackEnds :
         \A l \in TrackLimits :
           Len(getVehicleTrack(table, lp, s, e, l, now).rows) <= 10000

\* C19: a nearby query without a radius searches 1000 m, the radius it
\* searches is at most 10000 m whatever the caller asks for, and it answers
\* with at most 200 rows.
C19_NearbyCaps ==
    /\ RadiusOrDefault(NULL) = 1000
    /\ \A radius \in NearbyRadii : RadiusOrDefault(radius) <= 10000
    /\ \A lon \in NearbyLongitudes \ {NULL} :
         \A lat \in NearbyLatitudes \ {NULL} :
           \A radius \in NearbyRadii : \A tw \in NearbyWindows :
             Len(getNearbyVehicles(table, Val(lon), Val(lat),
                     RadiusOrDefault(radius), TimeWindowOrDefault(tw),
                     now).rows) <= 200

\* C20: a write of a retention policy with compression days above its
\* retention days is rejected and leaves the stored policies as they were,
\* so every stored policy has compression_days <= retention_days.
C20_PolicyOrdering ==
    /\ \A p \in policies : p.compression_days <= p.retention_days
    /\ \A row \in PolicyRows :
         row.compression_days > row.retention_days =>
           /\ InsertPolicies(policies, <<row>>) = policies
           /\ UpdatePolicy(policies, row.tenant_id, row.data_type,
                           row.retention_days, row.compression_days)
                = policies


\* C21: per-tenant retention isolation.  Applying the policy of one tenant
\* and running the retention job never drops a row that is younger than
\* the retention duration of another tenant, and leaves the compression
\* age that applies to the other tenant's data what it was.
C21_TenantIsolation ==
    \A a \in policies : \A b \in policies :
        (/\ a.data_type = "vehicle_telemetry"
         /\ b.data_type = "vehicle_telemetry"
         /\ a.tenant_id # b.tenant_id)
        => \A js \in {apply_tenant_retention_policy(policies, jobs,
                                                    a.tenant_id)} :
             /\ \A r \in table \ drop_chunks(table, chunks, now,
                                             js.retention).table :
                    r.time <= now - b.retention_days * Day
             /\ js.compression = jobs.compression


\* C22: compressed chunks are immutable to ingestion.  An upsert with a
\* timestamp in a compressed chunk is rejected, and the rows of every
\* compressed chunk are what they were before.
C22_CompressedImmutable ==
    \A fn \in Fns : \A data \in Batches(TenantRecords, 1) :
        IntoCompressed(data, compressed)
        => \A build \in Builds(data, compressed) :
             \A res \in {OnCompressed(Ingest(fn, table, chunks, data, now),
                                      table, chunks, data, compressed,
                                      build)} :
                /\ ~res.ok
                /\ \A c \in compressed :
                       RowsOfChunk(res.table, c) = RowsOfChunk(table, c)


\* The records the rows of a summary account for.
RECURSIVE TotalRecords(_)
TotalRecords(summary) ==
    IF summary = <<>> THEN 0
    ELSE Head(summary).total_records + TotalRecords(Tail(summary))

\* The stored records of the days from startDate to endDate.
RawRecords(startDate, endDate) ==
    {r \in table : /\ time_bucket(Day, r.time) >= startDate
                   /\ time_bucket(Day, r.time) <= endDate}

\* C23: query routing split.  A daily summary whose window reaches into
\* the days the refresh job has not yet reached accounts for every record
\* stored in the window: the returned rows count as many records as the
\* raw rows of those days.
C23_QueryRoutingSplit ==
    \A s \in RefreshDates : \A e \in RefreshDates :
        (Val(s) <= Val(e) /\ Val(e) + Day > now - end_offset)
        => \A materialized_only \in MaterializedOnly :
             \A summary \in {getVehicleDailySummary(
                                CaggView(cagg, table, materialized_only),
                                Val(s), Val(e), NULL)} :
                TotalRecords(summary)
                    = Cardinality(RawRecords(Val(s), Val(e)))


\* The materialized rows and the aggregate of the raw rows of one day.
Materialized(d) == {row \in cagg : row.date = d}

Aggregate(d) == {row \in cagg_vehicle_daily_summary(table) : row.date = d}

\* The raw rows of one day.
RawOfDay(t, d) == {r \in t : time_bucket(Day, r.time) = d}

\* The days of the records, all of which the refresh window can reach
\* before the clock stops.
RefreshDays == {time_bucket(Day, r.time) : r \in RefreshRecords}

\* C24: rollup eventual consistency.  For a record of any timestamp, once
\* ingestion stops changing the raw rows of its day, the materialized rows
\* of that day eventually equal, and stay equal to, the aggregate of the
\* day's raw rows, when the refresh job and the clock are scheduled fairly.
C24_EventualConsistency ==
    \A d \in RefreshDays :
        \/ []<><<RawOfDay(table', d) # RawOfDay(table, d)>>_vars
        \/ <>[](Materialized(d) = Aggregate(d))

\* C25: refresh lag window.  A refresh that runs at `now` creates or changes
\* only days that lie wholly inside [now - start_offset, now - end_offset]:
\* no day that overlaps the most recent end_offset and no day that begins
\* before now - start_offset is touched.
C25_RefreshWindow ==
    [][last'.op = "refresh"
       => \A d \in DatesOf(cagg \cup cagg', table) :
            {row \in cagg' : row.date = d} # Materialized(d)
            => d >= now - start_offset /\ d + Day <= now - end_offset]_vars

\* A refresh has materialized day 0 and has left alone a day that begins
\* before the window and whose raw rows the rollup does not show.
C25_Witness ==
    /\ last.op = "refresh"
    /\ Materialized(0) # {}
    /\ \E d \in DatesOf(cagg, table) :
          d < now - start_offset /\ Materialized(d) # Aggregate(d)


\* The sub-batches of a batch, counted from 0.
SubBatch(data, b) ==
    SubSeq(data, b * batch_size + 1, Min((b + 1) * batch_size, Len(data)))

\* What sub-batch failure isolation leaves: every sub-batch is attempted
\* on what the ones before it left; one that fails leaves no row, one that
\* succeeds stays.  written and failed count the records of either kind.
RECURSIVE Isolated(_, _, _, _)
Isolated(acc, data, b, t) ==
    IF b * batch_size >= Len(data) THEN acc
    ELSE \* the command of sub-batch b on the rows so far
      LET stmt == BulkStatement([ok |-> TRUE, table |-> acc.table,
                                 chunks |-> acc.chunks, touched |-> {}],
                                SubBatch(data, b), 1, t)
      IN  Isolated(IF stmt.ok
                   THEN [table |-> stmt.table, chunks |-> stmt.chunks,
                         written |-> acc.written + Len(SubBatch(data, b)),
                         failed |-> acc.failed]
                   ELSE [acc EXCEPT !.failed = @ + Len(SubBatch(data, b))],
                   data, b + 1, t)

\* C26: sub-batch failure isolation.  When one sub-batch of a batch fails,
\* the rows of the sub-batches that succeeded are stored, the failed one
\* leaves none, the later ones are attempted, and the count returned and
\* the records of the failed sub-batches add up to the size of the batch.
C26_SubBatchIsolation ==
    \A data \in {TailFails, HeadFails} :
        \A res \in {insertTelemetryBatch(table, chunks, data, now)} :
        \A want \in {Isolated([table |-> table, chunks |-> chunks,
                               written |-> 0, failed |-> 0],
                              data, 0, now)} :
            /\ res.table = want.table
            /\ res.count + want.failed = Len(data)


\* The batches of two valid records on one key.
SameKeyTwice(data) ==
    /\ Len(data) = 2
    /\ PrimaryKey(data[1]) = PrimaryKey(data[2])
    /\ InDomain(data[1]) /\ InDomain(data[2])

\* C28: duplicate keys inside one batch.  A batch with two records on the
\* same (license_plate, time) key is ingested successfully and leaves one
\* row for the key, with the position, speed, motion flags and raw data of
\* the second record.
C28_DuplicateKeysInBatch ==
    \A fn \in Fns : \A data \in MergeBatches :
        SameKeyTwice(data) =>
          \A res \in {Ingest(fn, table, chunks, data, now)} :
            /\ res.ok
            /\ Cardinality(Conflicting(res.table, data[2])) = 1
            /\ \A row \in Conflicting(res.table, data[2]) :
                 /\ row.longitude = data[2].longitude
                 /\ row.latitude = data[2].latitude
                 /\ row.speed = data[2].speed
                 /\ row.is_moving = data[2].is_moving
                 /\ row.is_speeding = data[2].is_speeding
                 /\ row.raw_data = data[2].raw_data

\* C29: ingestion count.  The count a successful bulk insert returns, which
\* POST /telemetry/batch reports, is the number of records of the batch,
\* all of them written, also when the batch is longer than a sub-batch.
C29_IngestionCount ==
    /\ \A fn \in Fns : \A data \in Batches(SubBatchRecords, 1) :
         \A res \in {Ingest(fn, table, chunks, data, now)} :
           res.ok => res.count = Len(data) /\ KeysOf(data) \subseteq KeysIn(res.table)
    /\ \A res \in {insertTelemetryBatch(table, chunks, FullBatch, now)} :
           res.ok => /\ res.count = Len(FullBatch)
                     /\ KeysOf(FullBatch) \subseteq KeysIn(res.table)


\* The transactions that have committed, and the orders they can be put in.
Committed == {s \in sessions : s.status = "committed"}

Orders(S) ==
    {order \in [1..Cardinality(S) -> S] :
        \A i \in DOMAIN order : \A j \in DOMAIN order :
            i # j => order[i] # order[j]}

\* The record a batch supplies for a key, and the batch that is the last
\* of an order to supply one.
SuppliedFor(s, k) ==
    s.data[CHOOSE i \in 1..Len(s.data) :
               <<s.data[i].license_plate, s.data[i].time>> = k]

LastWith(order, k) ==
    order[CHOOSE i \in DOMAIN order :
              /\ k \in KeysOf(order[i].data)
              /\ \A j \in DOMAIN order : j > i => k \notin KeysOf(order[j].data)]

\* The keys every one of the batches holds.
SharedKeys == {k \in KeysOf((CHOOSE s \in sessions : TRUE).data) :
                  \A s \in sessions : k \in KeysOf(s.data)}

\* When the two batches have ended, each shared key has one row, and there
\* is an order of the committed batches such that every field of `fields` of
\* that row is the one the last batch of the order supplied.
SerialOutcome(fields) ==
    (/\ Cardinality(sessions) = 2
     /\ Running(sessions) = {}
     /\ Committed # {})
    => \E order \in Orders(Committed) :
         \A k \in SharedKeys :
           /\ Cardinality({r \in table : PrimaryKey(r) = k}) = 1
           /\ \A r \in {q \in table : PrimaryKey(q) = k} :
                \A f \in fields : r[f] = SuppliedFor(LastWith(order, k), k)[f]

\* C27: concurrent upserts on one key.  However two batches that hold the
\* same key interleave, the key ends with one row, and longitude, latitude,
\* speed, is_moving, is_speeding and raw_data of that row are the values
\* supplied by the batch that is last in some serial order of the batches.
C27_ConcurrentUpserts ==
    SerialOutcome({"longitude", "latitude", "speed", "is_moving",
                   "is_speeding", "raw_data"})

\* C30: connection pool discipline.  Whatever the interleaving of the
\* requests, and whether their queries succeed or fail, the pool never has
\* more than 20 clients checked out, and none once every call has ended.
C30_PoolDiscipline ==
    /\ pool.checked_out <= max
    /\ (pool.holding = EmptyBag /\ pool.queue = <<>>) => pool.checked_out = 0

\* With the pool exhausted and a caller waiting, a call whose query failed
\* has ended and its client has gone to the caller that waited.
C30_Witness ==
    /\ last.op = "post" /\ last.status = 500
    /\ pool.checked_out = max
    /\ pool.queue = <<>>

\* Every call has ended, the last of them a failure, and no client is
\* checked out.
C30_WitnessIdle ==
    /\ last.op = "post" /\ last.status = 500
    /\ pool.holding = EmptyBag /\ pool.queue = <<>>
    /\ pool.checked_out = 0

====
